---------------------------- MODULE Spec2Model ----------------------------
(***************************************************************************)
(* DS1302 real-time-clock driver (components/ds1302/ds1302.c).             *)
(*                                                                         *)
(* The driver bit-bangs the chip's three-wire protocol on three GPIO       *)
(* lines: chip-select (CE), serial clock (SCLK) and data (IO).  Every      *)
(* GPIO call of the driver is one step of the calling task; the chip       *)
(* reacts to the line edges within the same step.                          *)
(***************************************************************************)
EXTENDS Naturals, Integers, Sequences, FiniteSets, TLC

---------------------------------------------------------------------------
(* Register map and bit masks                                              *)

CH_REG == 128
WP_REG == 142
CH_BIT == 128
WP_BIT == 128
HOUR12_BIT == 128
PM_BIT == 32
CH_MASK == 127
WP_MASK == 127
CLOCK_BURST == 190
RAM_BURST == 254
SECONDS_MASK == 127
HOUR12_MASK == 31
HOUR24_MASK == 63
DS1302_RAM_SIZE == 31
YEAR_BASE == 2000

(* Bounds of the model *)
MaxFaults == 1
MaxNest == 4
MaxCalls == 3

Tasks == {1, 2}

ESP_OK == "ESP_OK"
ESP_FAIL == "ESP_FAIL"
ESP_ERR_INVALID_ARG == "ESP_ERR_INVALID_ARG"

---------------------------------------------------------------------------
(* uint8_t arithmetic                                                      *)

Pow2(i) == CASE i = 0 -> 1 [] i = 1 -> 2 [] i = 2 -> 4 [] i = 3 -> 8
             [] i = 4 -> 16 [] i = 5 -> 32 [] i = 6 -> 64 [] i = 7 -> 128
             [] OTHER -> 256

Bit(v, i) == (v \div Pow2(i)) % 2

U8(v) == v % 256

RECURSIVE AndN(_, _, _)
AndN(a, b, i) == IF i = 8 THEN 0
                 ELSE Bit(a, i) * Bit(b, i) * Pow2(i) + AndN(a, b, i + 1)

And8(a, b) == AndN(U8(a), U8(b), 0)

Or8(a, b) == U8(a) + U8(b) - And8(a, b)

---------------------------------------------------------------------------
(* Time codec                                                              *)

(* a faulty decoder: the byte is taken as a binary number *)
bcd2dec_Binary(val) == U8(val)

bcd2dec(val) == (U8(val) \div 16) * 10 + And8(val, 15)

(* a faulty encoder: the two decimal digits land in the wrong nibbles *)
dec2bcd_DigitsSwapped(val) == U8((U8(val) % 10) * 16 + (U8(val) \div 10))

dec2bcd(val) == U8((U8(val) \div 10) * 16 + (U8(val) % 10))

(* buf[8] of ds1302_set_time; sequences are 1-based, buf[0] is SetTimeBuf[1] *)
(* a faulty set_time: the eighth byte sets the write-protect bit *)
SetTimeBuf_Protects(time, ch) ==
    << Or8(dec2bcd(time.tm_sec), IF ch THEN CH_BIT ELSE 0),
       dec2bcd(time.tm_min), dec2bcd(time.tm_hour), dec2bcd(time.tm_mday),
       dec2bcd(time.tm_mon + 1), dec2bcd(time.tm_wday + 1),
       dec2bcd(time.tm_year - YEAR_BASE), WP_BIT >>

SetTimeBuf(time, ch) ==
    << Or8(dec2bcd(time.tm_sec), IF ch THEN CH_BIT ELSE 0),
       dec2bcd(time.tm_min),
       dec2bcd(time.tm_hour),
       dec2bcd(time.tm_mday),
       dec2bcd(time.tm_mon + 1),
       dec2bcd(time.tm_wday + 1),
       dec2bcd(time.tm_year - YEAR_BASE),
       0 >>

(* a faulty decoder: 12-hour values are not moved down by one *)
DecodeHour_NoOffset(b) ==
    IF And8(b, HOUR12_BIT) # 0
    THEN bcd2dec(And8(b, HOUR12_MASK)) + (IF And8(b, PM_BIT) # 0 THEN 12 ELSE 0)
    ELSE bcd2dec(And8(b, HOUR24_MASK))

DecodeHour(b) ==
    IF And8(b, HOUR12_BIT) # 0
    THEN (bcd2dec(And8(b, HOUR12_MASK)) - 1)
         + (IF And8(b, PM_BIT) # 0 THEN 12 ELSE 0)
    ELSE bcd2dec(And8(b, HOUR24_MASK))

(* the struct tm filled in by ds1302_get_time from the 7 bytes read *)
GetTimeDecode(buf) ==
    [ tm_sec  |-> bcd2dec(And8(buf[1], SECONDS_MASK)),
      tm_min  |-> bcd2dec(buf[2]),
      tm_hour |-> DecodeHour(buf[3]),
      tm_mday |-> bcd2dec(buf[4]),
      tm_mon  |-> bcd2dec(buf[5]) - 1,
      tm_wday |-> bcd2dec(buf[6]) - 1,
      tm_year |-> bcd2dec(buf[7]) + YEAR_BASE ]

---------------------------------------------------------------------------
(* Inputs the callers use                                                  *)

TimeA == [ tm_sec |-> 59, tm_min |-> 7, tm_hour |-> 23, tm_mday |-> 31,
           tm_mon |-> 11, tm_wday |-> 6, tm_year |-> 2099 ]

TimeInputs == { TimeA }

TimeMin == [ tm_sec |-> 0, tm_min |-> 0, tm_hour |-> 0, tm_mday |-> 1,
             tm_mon |-> 0, tm_wday |-> 0, tm_year |-> 2000 ]

(* time records in the chip's native ranges: each field over its whole
   range, the other fields at their least and at their greatest *)
TimeRange ==
    UNION { { [ base EXCEPT !.tm_sec = v ] : v \in 0..59 }
            \cup { [ base EXCEPT !.tm_min = v ] : v \in 0..59 }
            \cup { [ base EXCEPT !.tm_hour = v ] : v \in 0..23 }
            \cup { [ base EXCEPT !.tm_mday = v ] : v \in 1..31 }
            \cup { [ base EXCEPT !.tm_mon = v ] : v \in 0..11 }
            \cup { [ base EXCEPT !.tm_wday = v ] : v \in 0..6 }
            \cup { [ base EXCEPT !.tm_year = v ] : v \in 2000..2099 }
          : base \in { TimeMin, TimeA } }

(* the clock registers of the chip at power-up, before the flags *)
PowerUpClock == << 18, 52, 9, 1, 1, 1, 0, 0 >>

(* dev and buf: the handle and the buffer are passed, not NULL *)
NoArg == [ b |-> FALSE, time |-> TimeA, off |-> 0, len |-> 0, data |-> << >>,
           dev |-> TRUE, buf |-> TRUE ]

(* scratch-memory calls the callers make: offset and bytes *)
SramWrites == { [ off |-> 0, data |-> << 165 >> ] }

SramReads == { [ off |-> 0, len |-> 1 ] }

SramBad == { [ off |-> 30, len |-> 2 ], [ off |-> 0, len |-> 0 ] }

---------------------------------------------------------------------------
VARIABLES
    ce,       \* level of the chip-select line
    sclk,     \* level of the serial clock line
    iodir,    \* direction of the data pin: "in" or "out"
    iolvl,    \* level the driver drives on the data pin when it is an output
    chip,     \* the chip's protocol state
    clk,      \* the chip's clock registers 0..7 (seconds .. control), 1-based
    ram,      \* the chip's scratch memory, 31 bytes, 1-based
    mux,      \* the critical-section lock: owner (0: free) and nesting count
    dev_ch,   \* dev->ch, the cached clock-halt flag
    inited,   \* ds1302_init has returned ESP_OK
    pc,       \* per task: the place in the driver code
    op,       \* per task: the public operation running and its arguments
    tx,       \* per task: the transaction in progress
    err,      \* per task: the error code about to be returned
    res,      \* the operation that returned last: name, arguments, error code
    faults,   \* GPIO calls that have failed so far
    lastObs,  \* halt bit last read from or written to the seconds register
    chb4,     \* per task: the chip's halt bit when set_time was called
    calls,    \* public calls made so far, counted up to MaxCalls
    allok,    \* every operation so far has returned ESP_OK
    pulses    \* rising clock edges since chip-select last rose

lines == << ce, sclk, iodir, iolvl, pulses >>
rtc == << chip, clk, ram >>
vars == << ce, sclk, iodir, iolvl, chip, clk, ram, mux, dev_ch, inited,
           pc, op, tx, err, res, faults, lastObs, chb4, calls, allok, pulses >>

---------------------------------------------------------------------------
(* The DS1302 chip, as the lines drive it                                  *)

ChipIdle == [ ph |-> "idle", n |-> 0, sh |-> 0, ram |-> FALSE, idx |-> 0,
              burst |-> FALSE, q |-> 0 ]

ChipCmd == [ ChipIdle EXCEPT !.ph = "cmd" ]

(* write protection: bit 7 of the control register *)
ChipWp(k) == Bit(k[8], 7) = 1

(* clock halt: bit 7 of the seconds register *)
ChipCh(k) == Bit(k[1], 7)

(* the command byte, complete: bit 7 must be 1, bit 6 selects the scratch
   memory, bits 5..1 the address (31: burst), bit 0 a read *)
ChipDecode(b) ==
    IF Bit(b, 7) = 0 THEN [ ChipIdle EXCEPT !.ph = "ign" ]
    ELSE LET addr == (b \div 2) % 32 IN
         [ ph |-> IF Bit(b, 0) = 1 THEN "rd" ELSE "wr",
           n |-> 0, sh |-> 0,
           ram |-> Bit(b, 6) = 1,
           idx |-> IF addr = 31 THEN 0 ELSE addr,
           burst |-> addr = 31,
           q |-> 0 ]

(* the byte the chip shifts out for register c.idx *)
ChipRegVal(c, k, r) ==
    IF c.ram THEN (IF c.idx < DS1302_RAM_SIZE THEN r[c.idx + 1] ELSE 0)
    ELSE (IF c.idx < 8 THEN k[c.idx + 1] ELSE 0)

(* a complete data byte arrives for register c.idx: the control register
   takes a single-byte write always, every other write needs the
   write-protect bit clear *)
ChipStoreClk(c, k, byte) ==
    IF c.ram \/ c.idx > 7 THEN k
    ELSE IF c.idx = 7 /\ ~c.burst THEN [ k EXCEPT ![8] = byte ]
    ELSE IF ChipWp(k) THEN k
    ELSE [ k EXCEPT ![c.idx + 1] = byte ]

ChipStoreRam(c, k, r, byte) ==
    IF c.ram /\ c.idx < DS1302_RAM_SIZE /\ ~ChipWp(k)
    THEN [ r EXCEPT ![c.idx + 1] = byte ]
    ELSE r

ChipAfterByte(c) ==
    IF c.burst THEN [ c EXCEPT !.n = 0, !.sh = 0, !.idx = c.idx + 1 ]
    ELSE [ ChipIdle EXCEPT !.ph = "ign" ]

(* the level the chip samples on the data line: the driver's while the pin
   is an output, the pull-down's otherwise *)
IoSeenByChip == IF iodir = "out" THEN iolvl ELSE 0

(* gpio_get_level(io_pin) *)
IoSeenByDriver ==
    IF iodir = "in"
    THEN (IF ce = 1 /\ chip.ph = "rd" THEN chip.q ELSE 0)
    ELSE iolvl

(* rising clock edge with chip-select high: the chip samples one bit *)
ChipClkRise ==
    LET sh2 == chip.sh + IoSeenByChip * Pow2(chip.n) IN
    CASE chip.ph = "cmd" ->
           /\ chip' = IF chip.n = 7 THEN ChipDecode(sh2)
                      ELSE [ chip EXCEPT !.n = chip.n + 1, !.sh = sh2 ]
           /\ UNCHANGED << clk, ram >>
      [] chip.ph = "wr" ->
           IF chip.n = 7
           THEN /\ clk' = ChipStoreClk(chip, clk, sh2)
                /\ ram' = ChipStoreRam(chip, clk, ram, sh2)
                /\ chip' = ChipAfterByte(chip)
           ELSE /\ chip' = [ chip EXCEPT !.n = chip.n + 1, !.sh = sh2 ]
                /\ UNCHANGED << clk, ram >>
      [] OTHER -> UNCHANGED << chip, clk, ram >>

(* falling clock edge with chip-select high: a chip that is read shifts
   out the next bit *)
ChipClkFall ==
    /\ chip' = IF chip.ph = "rd"
               THEN [ chip EXCEPT
                        !.q = Bit(ChipRegVal(chip, clk, ram), chip.n),
                        !.n = (chip.n + 1) % 8,
                        !.idx = IF chip.n = 7 /\ chip.burst
                                THEN chip.idx + 1 ELSE chip.idx ]
               ELSE chip
    /\ UNCHANGED << clk, ram >>

---------------------------------------------------------------------------
(* GPIO calls that succeed                                                 *)

(* gpio_set_level(ce_pin, v) *)
SetCe(v) ==
    /\ ce' = v
    /\ chip' = IF v = 0 THEN ChipIdle
               ELSE IF ce = 0 /\ sclk = 0 THEN ChipCmd
               ELSE chip
    /\ pulses' = IF ce = 0 /\ v = 1 THEN 0 ELSE pulses
    /\ UNCHANGED << sclk, iodir, iolvl, clk, ram >>

(* gpio_set_level(sclk_pin, v) *)
SetSclk(v) ==
    /\ sclk' = v
    /\ IF ce = 1 /\ sclk = 0 /\ v = 1 THEN ChipClkRise
       ELSE IF ce = 1 /\ sclk = 1 /\ v = 0 THEN ChipClkFall
       ELSE UNCHANGED << chip, clk, ram >>
    /\ pulses' = IF ce = 1 /\ sclk = 0 /\ v = 1 THEN pulses + 1 ELSE pulses
    /\ UNCHANGED << ce, iodir, iolvl >>

(* gpio_set_level(io_pin, v) *)
SetIo(v) ==
    /\ iolvl' = v
    /\ UNCHANGED << ce, sclk, iodir, pulses, chip, clk, ram >>

(* gpio_set_direction(io_pin, m) *)
SetDir(m) ==
    /\ iodir' = m
    /\ UNCHANGED << ce, sclk, iolvl, pulses, chip, clk, ram >>

---------------------------------------------------------------------------
(* The critical section: portENTER_CRITICAL / portEXIT_CRITICAL            *)

MuxFree == [ owner |-> 0, count |-> 0 ]

MuxCanEnter(t) == mux.owner \in { 0, t }

(* a faulty lock: entering the critical section takes nothing *)
MuxEnter_Nothing(t) == mux

MuxEnter(t) == [ owner |-> t, count |-> mux.count + 1 ]

MuxExit(t) == IF mux.count <= 1 THEN MuxFree
              ELSE [ mux EXCEPT !.count = mux.count - 1 ]

---------------------------------------------------------------------------
(* Transactions                                                            *)

NoTx == [ kind |-> "none", out |-> << >>, nrd |-> 0, ph |-> "out", i |-> 1,
          k |-> 0, acc |-> 0, buf |-> << >>, half |-> 1, d0 |-> 0,
          at |-> "", r |-> 0, wp0 |-> FALSE, ram0 |-> << >> ]

(* a transaction sends the bytes of out (the address first) and then reads
   nrd bytes: "rr" read_register, "wr" write_register, "br" burst_read,
   "bw" burst_write.  ph is the direction of the data pin, i and k the byte
   and the bit in turn, acc the byte being read, buf the bytes read, half
   the half of update_register, d0 the nesting count found on entry, at
   the place of the GPIO call that failed, r the byte update_register has
   read, wp0 and ram0 the chip's write-protect bit and scratch memory found
   on entry *)
NewTx(kind, out, nrd, half) ==
    [ NoTx EXCEPT !.kind = kind, !.out = out, !.nrd = nrd, !.half = half ]

ReadRegisterTx(reg, half) == NewTx("rr", << Or8(reg, 1) >>, 1, half)

WriteRegisterTx(reg, val) == NewTx("wr", << reg, val >>, 0, 2)

(* a faulty burst: the loop stops one byte short *)
BurstReadTx_OneShort(reg, len) == NewTx("br", << Or8(reg, 1) >>, len - 1, 1)

BurstReadTx(reg, len) == NewTx("br", << Or8(reg, 1) >>, len, 1)

(* a faulty burst: the loop stops one byte short *)
BurstWriteTx_OneShort(reg, src) ==
    NewTx("bw", << reg >> \o SubSeq(src, 1, Len(src) - 1), 0, 1)

BurstWriteTx(reg, src) == NewTx("bw", << reg >> \o src, 0, 1)

(* a faulty update: the mask is not applied, so no bit is ever cleared *)
UpdateValue_NoMask(r, mask, val) == Or8(r, val)

(* update_register, after its read_register: the byte it writes back *)
UpdateValue(r, mask, val) == Or8(And8(r, mask), val)

NoRes == [ name |-> "none", arg |-> NoArg, err |-> ESP_OK ]

Goto(t, newpc, newtx, newerr) ==
    /\ pc' = [ pc EXCEPT ![t] = newpc ]
    /\ tx' = [ tx EXCEPT ![t] = newtx ]
    /\ err' = [ err EXCEPT ![t] = newerr ]

---------------------------------------------------------------------------
(* the state before ds1302_init, the chip's clock registers holding regs
   and either value of the clock-halt and write-protect flags *)
Boot(regs) ==
    /\ ce = 0 /\ sclk = 0 /\ iodir = "in" /\ iolvl = 0 /\ pulses = 0
    /\ chip = ChipIdle
    /\ \E ch \in { 0, CH_BIT }, wp \in { 0, WP_BIT } :
         clk = [ regs EXCEPT ![1] = regs[1] + ch, ![8] = wp ]
    /\ ram = [ i \in 1..DS1302_RAM_SIZE |-> 0 ]
    /\ mux = MuxFree
    /\ dev_ch \in BOOLEAN
    /\ inited = FALSE
    /\ pc = [ t \in Tasks |-> "idle" ]
    /\ op = [ t \in Tasks |-> [ name |-> "none", arg |-> NoArg ] ]
    /\ tx = [ t \in Tasks |-> NoTx ]
    /\ err = [ t \in Tasks |-> ESP_OK ]
    /\ res = NoRes
    /\ faults = 0
    /\ lastObs = 2
    /\ chb4 = [ t \in Tasks |-> 0 ]
    /\ calls = 0
    /\ allok = TRUE

Init == Boot(PowerUpClock)

---------------------------------------------------------------------------
(* Public operations: the call, up to the first transaction                *)

Call(t, name, arg, newpc, newtx, newerr) ==
    /\ pc[t] = "idle"
    /\ faults < MaxFaults
    /\ op' = [ op EXCEPT ![t] = [ name |-> name, arg |-> arg ] ]
    /\ Goto(t, newpc, newtx, newerr)
    /\ calls' = IF calls < MaxCalls THEN calls + 1 ELSE calls
    /\ UNCHANGED << lines, rtc, mux, dev_ch, inited, res, faults, lastObs, allok >>

Call_init(t) ==
    /\ Call(t, "init", NoArg, "cfg", NoTx, ESP_OK)
    /\ UNCHANGED chb4

Call_start(t) ==
    \E b \in BOOLEAN :
      /\ inited
      /\ mux.count < MaxNest
      /\ Call(t, "start", [ NoArg EXCEPT !.b = b ], "enter",
              ReadRegisterTx(CH_REG, 1), ESP_OK)
      /\ UNCHANGED chb4

Call_is_running(t) ==
    /\ inited
    /\ Call(t, "is_running", NoArg, "enter", ReadRegisterTx(CH_REG, 1), ESP_OK)
    /\ UNCHANGED chb4

Call_set_write_protect(t) ==
    \E b \in BOOLEAN :
      /\ inited
      /\ mux.count < MaxNest
      /\ Call(t, "set_write_protect", [ NoArg EXCEPT !.b = b ], "enter",
              ReadRegisterTx(WP_REG, 1), ESP_OK)
      /\ UNCHANGED chb4

Call_get_write_protect(t) ==
    /\ inited
    /\ Call(t, "get_write_protect", NoArg, "enter",
            ReadRegisterTx(WP_REG, 1), ESP_OK)
    /\ UNCHANGED chb4

Call_get_time(t) ==
    /\ inited
    /\ Call(t, "get_time", NoArg, "enter", BurstReadTx(CLOCK_BURST, 7), ESP_OK)
    /\ UNCHANGED chb4

SetTimeOf(t, time) ==
    /\ inited
    /\ Call(t, "set_time", [ NoArg EXCEPT !.time = time ], "enter",
            BurstWriteTx(CLOCK_BURST, SetTimeBuf(time, dev_ch)), ESP_OK)
    /\ chb4' = [ chb4 EXCEPT ![t] = ChipCh(clk) ]

Call_set_time(t) == \E time \in TimeInputs : SetTimeOf(t, time)

(* a faulty bound check: the sum of offset and length wraps at 8 bits *)
SramArgOk_Wraps(off, len) == len # 0 /\ (off + len) % 256 <= DS1302_RAM_SIZE

(* CHECK_ARG(len); CHECK_ARG(offset + len <= DS1302_RAM_SIZE): the sum is
   an int, it does not wrap *)
SramArgOk(off, len) == len # 0 /\ off + len <= DS1302_RAM_SIZE

(* CHECK_ARG(dev); CHECK_ARG(buf) *)
SramPtrOk(arg) == arg.dev /\ arg.buf

(* ds1302_read_sram with the arguments arg *)
ReadSramOf(t, arg) ==
    /\ inited
    /\ IF SramPtrOk(arg) /\ SramArgOk(arg.off, arg.len)
       THEN Call(t, "read_sram", arg, "enter",
                 BurstReadTx(RAM_BURST, arg.len), ESP_OK)
       ELSE Call(t, "read_sram", arg, "ret", NoTx, ESP_ERR_INVALID_ARG)
    /\ UNCHANGED chb4

(* ds1302_write_sram with the arguments arg, arg.data the bytes of buf *)
WriteSramOf(t, arg) ==
    /\ inited
    /\ IF SramPtrOk(arg) /\ SramArgOk(arg.off, arg.len)
       THEN Call(t, "write_sram", arg, "enter",
                 BurstWriteTx(RAM_BURST, SubSeq(arg.data, 1, arg.len)), ESP_OK)
       ELSE Call(t, "write_sram", arg, "ret", NoTx, ESP_ERR_INVALID_ARG)
    /\ UNCHANGED chb4

Call_read_sram(t) ==
    \E a \in SramReads \cup SramBad :
      ReadSramOf(t, [ NoArg EXCEPT !.off = a.off, !.len = a.len ])

Call_write_sram(t) ==
    \E a \in SramWrites \cup SramBad :
      LET data == IF a \in SramWrites THEN a.data
                  ELSE [ i \in 1..a.len |-> 0 ]
      IN WriteSramOf(t, [ NoArg EXCEPT !.off = a.off, !.len = Len(data),
                                       !.data = data ])

---------------------------------------------------------------------------
(* ds1302_init: gpio_config of the three pins as outputs, then             *)
(* ds1302_is_running                                                       *)

Cfg(t) ==
    /\ pc[t] = "cfg"
    /\ SetDir("out")
    /\ Goto(t, "enter", ReadRegisterTx(CH_REG, 1), ESP_OK)
    /\ UNCHANGED << mux, dev_ch, inited, op, res, faults, lastObs, chb4, calls, allok >>

---------------------------------------------------------------------------
(* The steps of a transaction                                              *)

(* PORT_ENTER_CRITICAL at the head of a transaction: spins while another
   task holds the lock *)
Enter(t) ==
    /\ pc[t] = "enter"
    /\ MuxCanEnter(t)
    /\ mux' = MuxEnter(t)
    /\ Goto(t, "prep_dir",
            [ tx[t] EXCEPT !.d0 = mux.count, !.wp0 = ChipWp(clk), !.ram0 = ram ],
            ESP_OK)
    /\ UNCHANGED << lines, rtc, dev_ch, inited, op, res, faults, lastObs, chb4, calls, allok >>

(* prepare: gpio_set_direction(io_pin, mode) *)
PrepDir(t) ==
    /\ pc[t] = "prep_dir"
    /\ SetDir(tx[t].ph)
    /\ Goto(t, "prep_clk", tx[t], ESP_OK)
    /\ UNCHANGED << mux, dev_ch, inited, op, res, faults, lastObs, chb4, calls, allok >>

(* prepare: gpio_set_level(sclk_pin, 0) *)
PrepClk(t) ==
    /\ pc[t] = "prep_clk"
    /\ SetSclk(0)
    /\ Goto(t, "prep_ce", tx[t], ESP_OK)
    /\ UNCHANGED << mux, dev_ch, inited, op, res, faults, lastObs, chb4, calls, allok >>

(* chip_enable: gpio_set_level(ce_pin, 1) and the settle delay *)
PrepCe(t) ==
    /\ pc[t] = "prep_ce"
    /\ SetCe(1)
    /\ Goto(t, IF tx[t].ph = "out" THEN "wb_io" ELSE "rb_get", tx[t], ESP_OK)
    /\ UNCHANGED << mux, dev_ch, inited, op, res, faults, lastObs, chb4, calls, allok >>

(* write_byte: gpio_set_level(io_pin, (b >> i) & 1) *)
WbIo(t) ==
    /\ pc[t] = "wb_io"
    /\ SetIo(Bit(tx[t].out[tx[t].i], tx[t].k))
    /\ Goto(t, "clk_hi", tx[t], ESP_OK)
    /\ UNCHANGED << mux, dev_ch, inited, op, res, faults, lastObs, chb4, calls, allok >>

(* read_byte: *b |= gpio_get_level(io_pin) << i *)
RbGet(t) ==
    LET x == tx[t]
        acc2 == x.acc + IoSeenByDriver * Pow2(x.k)
        secs == x.i = 1 /\ x.k = 7
                /\ x.out[1] \in { Or8(CH_REG, 1), Or8(CLOCK_BURST, 1) }
    IN
    /\ pc[t] = "rb_get"
    /\ Goto(t, "clk_hi", [ x EXCEPT !.acc = acc2 ], ESP_OK)
    /\ lastObs' = IF secs THEN Bit(acc2, 7) ELSE lastObs
    /\ UNCHANGED << lines, rtc, mux, dev_ch, inited, op, res, faults, chb4, calls, allok >>

(* toggle_clock: gpio_set_level(sclk_pin, 1) *)
ClkHi(t) ==
    LET x == tx[t]
        secs == x.ph = "out" /\ x.i = 2 /\ x.k = 7
                /\ x.out[1] \in { CH_REG, CLOCK_BURST }
    IN
    /\ pc[t] = "clk_hi"
    /\ SetSclk(1)
    /\ Goto(t, "clk_lo", x, ESP_OK)
    /\ lastObs' = IF secs THEN Bit(x.out[2], 7) ELSE lastObs
    /\ UNCHANGED << mux, dev_ch, inited, op, res, faults, chb4, calls, allok >>

(* where the transaction stands after a whole clock pulse *)
AfterPulse(x) ==
    IF x.ph = "out"
    THEN IF x.k < 7 THEN [ pc |-> "wb_io", tx |-> [ x EXCEPT !.k = x.k + 1 ] ]
         ELSE IF x.i < Len(x.out)
              THEN [ pc |-> "wb_io", tx |-> [ x EXCEPT !.i = x.i + 1, !.k = 0 ] ]
         ELSE IF x.nrd > 0
              THEN [ pc |-> "prep_dir",
                     tx |-> [ x EXCEPT !.ph = "in", !.i = 1, !.k = 0 ] ]
         ELSE [ pc |-> "exit", tx |-> x ]
    ELSE IF x.k < 7 THEN [ pc |-> "rb_get", tx |-> [ x EXCEPT !.k = x.k + 1 ] ]
         ELSE LET y == [ x EXCEPT !.buf = Append(x.buf, x.acc), !.acc = 0,
                                  !.k = 0 ]
              IN IF x.i < x.nrd
                 THEN [ pc |-> "rb_get", tx |-> [ y EXCEPT !.i = x.i + 1 ] ]
                 ELSE [ pc |-> "exit", tx |-> y ]

(* toggle_clock: gpio_set_level(sclk_pin, 0) *)
ClkLo(t) ==
    /\ pc[t] = "clk_lo"
    /\ SetSclk(0)
    /\ Goto(t, AfterPulse(tx[t]).pc, AfterPulse(tx[t]).tx, ESP_OK)
    /\ UNCHANGED << mux, dev_ch, inited, op, res, faults, lastObs, chb4, calls, allok >>

(* what the code does with the lock once the bytes are through:
   write_register enters the critical section a second time, the other
   three leave it *)
MuxAtEnd(t) == IF tx[t].kind = "wr" THEN MuxEnter(t) ELSE MuxExit(t)

EndCritical(t) ==
    /\ pc[t] = "exit"
    /\ mux' = MuxAtEnd(t)
    /\ Goto(t, "cs_off", tx[t], ESP_OK)
    /\ UNCHANGED << lines, rtc, dev_ch, inited, op, res, faults, lastObs, chb4, calls, allok >>

(* update_register: the first half is read, write_register follows *)
IsUpdateRead(t) ==
    /\ op[t].name \in { "start", "set_write_protect" }
    /\ tx[t].half = 1

(* a faulty start: the halt bit follows the argument instead of its
   complement *)
StartValue_NotComplemented(start) == IF start THEN CH_BIT ELSE 0

(* ds1302_start: start ? 0 : CH_BIT *)
StartValue(start) == IF start THEN 0 ELSE CH_BIT

(* ds1302_set_write_protect: wp ? WP_BIT : 0 *)
WpValue(wp) == IF wp THEN WP_BIT ELSE 0

UpdateWriteTx(t) ==
    LET r == tx[t].buf[1] IN
    [ ( IF op[t].name = "start"
        THEN WriteRegisterTx(CH_REG,
               UpdateValue(r, CH_MASK, StartValue(op[t].arg.b)))
        ELSE WriteRegisterTx(WP_REG,
               UpdateValue(r, WP_MASK, WpValue(op[t].arg.b))) )
      EXCEPT !.r = r ]

(* chip_disable: gpio_set_level(ce_pin, 0), outside the critical section *)
CsOff(t) ==
    /\ pc[t] = "cs_off"
    /\ SetCe(0)
    /\ IF IsUpdateRead(t)
       THEN Goto(t, "enter", UpdateWriteTx(t), ESP_OK)
       ELSE Goto(t, "ret", tx[t], ESP_OK)
    /\ UNCHANGED << mux, dev_ch, inited, op, res, faults, lastObs, chb4, calls, allok >>

---------------------------------------------------------------------------
(* The tail of each public operation and its return                        *)

(* *running of ds1302_is_running *)
RunningOf(r) == And8(r, CH_BIT) = 0

(* *wp of ds1302_get_write_protect *)
WpOf(r) == And8(r, WP_BIT) # 0

(* dev->ch as the operation leaves it *)
ChAtReturn(t) ==
    IF err[t] # ESP_OK THEN dev_ch
    ELSE CASE op[t].name \in { "init", "is_running" } -> ~RunningOf(tx[t].buf[1])
           [] op[t].name = "start" -> ~op[t].arg.b
           [] OTHER -> dev_ch

Return(t) ==
    /\ pc[t] = "ret"
    /\ dev_ch' = ChAtReturn(t)
    /\ inited' = (inited \/ (op[t].name = "init" /\ err[t] = ESP_OK))
    /\ res' = [ name |-> op[t].name, arg |-> op[t].arg, err |-> err[t] ]
    /\ op' = [ op EXCEPT ![t] = [ name |-> "none", arg |-> NoArg ] ]
    /\ chb4' = [ chb4 EXCEPT ![t] = 0 ]
    /\ Goto(t, "idle", NoTx, ESP_OK)
    /\ allok' = (allok /\ err[t] = ESP_OK)
    /\ UNCHANGED << lines, rtc, mux, faults, lastObs, calls >>

---------------------------------------------------------------------------
(* GPIO calls that fail                                                    *)

(* the places where the task's next call is a GPIO call made under
   CHECK_MUX, inside the critical section *)
InMuxCalls == { "prep_dir", "prep_clk", "prep_ce", "wb_io", "clk_hi", "clk_lo" }

(* the places where it is a GPIO call made under CHECK or returned as it
   is: gpio_config of ds1302_init, chip_disable *)
PlainCalls == { "cfg", "cs_off" }

(* the lock after CHECK_MUX has seen a failure *)
MuxOnFail(t) == MuxExit(t)

(* CHECK_MUX: the call fails, the critical section is left, the error
   returned *)
FaultInMux(t) ==
    /\ pc[t] \in InMuxCalls
    /\ faults < MaxFaults
    /\ faults' = faults + 1
    /\ mux' = MuxOnFail(t)
    /\ Goto(t, "ret", [ tx[t] EXCEPT !.at = pc[t] ], ESP_FAIL)
    /\ UNCHANGED << lines, rtc, dev_ch, inited, op, res, lastObs, chb4, calls, allok >>

(* CHECK, or the plain return of chip_disable: the error is returned *)
FaultPlain(t) ==
    /\ pc[t] \in PlainCalls
    /\ faults < MaxFaults
    /\ faults' = faults + 1
    /\ Goto(t, "ret", [ tx[t] EXCEPT !.at = pc[t] ], ESP_FAIL)
    /\ UNCHANGED << lines, rtc, mux, dev_ch, inited, op, res, lastObs, chb4, calls, allok >>

---------------------------------------------------------------------------
(* One step of task t                                                      *)

(* the steps inside an operation, from its call to its return *)
Run(t) ==
    \/ Cfg(t) \/ Enter(t) \/ PrepDir(t) \/ PrepClk(t) \/ PrepCe(t)
    \/ WbIo(t) \/ RbGet(t) \/ ClkHi(t) \/ ClkLo(t)
    \/ EndCritical(t) \/ CsOff(t) \/ Return(t)

Step(t) ==
    \/ Call_init(t) \/ Call_start(t) \/ Call_is_running(t)
    \/ Call_set_write_protect(t) \/ Call_get_write_protect(t)
    \/ Call_get_time(t) \/ Call_set_time(t)
    \/ Call_read_sram(t) \/ Call_write_sram(t)
    \/ Run(t)

(* one caller: operations on the handle are serialised, no GPIO call fails *)
Next == Step(1)

Spec == Init /\ [][Next]_vars

(* one caller whose GPIO calls may fail *)
FaultNext == Step(1) \/ FaultInMux(1) \/ FaultPlain(1)

FaultSpec == Init /\ [][FaultNext]_vars

(* one caller initialises the handle, sets a time of the native ranges and
   reads the time back *)
RoundTripNext ==
    \/ ~inited /\ res.name = "none" /\ Call_init(1)
    \/ res.name = "init" /\ pc[1] = "idle"
         /\ \E time \in TimeRange : SetTimeOf(1, time)
    \/ res.name = "set_time" /\ Call_get_time(1)
    \/ Run(1)

(* the chip accepts writes: its write-protect bit is clear at power-up *)
RoundTripInit == Init /\ ~ChipWp(clk)

RoundTripSpec == RoundTripInit /\ [][RoundTripNext]_vars

(* no operation is running *)
Idle == \A t \in Tasks : pc[t] = "idle"

(* two tasks, each on a core of its own: the handle is initialised before
   it is shared, then both call the register operations *)
ConcStep(t) ==
    \/ calls < MaxCalls /\ ~inited /\ Idle /\ Call_init(t)
    \/ calls < MaxCalls /\ Call_start(t)
    \/ calls < MaxCalls /\ Call_is_running(t)
    \/ calls < MaxCalls /\ Call_set_write_protect(t)
    \/ calls < MaxCalls /\ Call_set_time(t)
    \/ Run(t)

ConcNext == \E t \in Tasks : ConcStep(t)

ConcSpec == Init /\ [][ConcNext]_vars

(* the two tasks call init and the masked register updates; a task inside
   an operation keeps running, nothing obliges a task to call again *)
FairStep(t) ==
    \/ calls < MaxCalls /\ Call_init(t)
    \/ calls < MaxCalls /\ Call_start(t)
    \/ calls < MaxCalls /\ Call_set_write_protect(t)
    \/ Run(t)

FairNext == \E t \in Tasks : FairStep(t)

(* the handle zeroed, the chip running and writable *)
FairInit == Init /\ dev_ch = FALSE /\ ChipCh(clk) = 0 /\ ~ChipWp(clk)

FairSpec ==
    FairInit /\ [][FairNext]_vars /\ \A t \in Tasks : WF_vars(Run(t))

(* the bytes of a caller's buffer of len bytes *)
Fill(len) == [ i \in 1..len |-> 165 ]

(* every offset and length of 8 bits, handle and buffer present or not as
   ptrs allows; a buffer holds len bytes when the call can come to read it *)
SramArgs(ptrs) ==
    { [ NoArg EXCEPT !.dev = d, !.buf = b, !.off = o, !.len = l,
                     !.data = IF b /\ o + l <= DS1302_RAM_SIZE
                              THEN Fill(l) ELSE << >> ]
      : d \in ptrs, b \in ptrs, o \in 0..255, l \in 0..255 }

(* one caller initialises the handle and makes one scratch-memory call *)
ArgNext ==
    \/ ~inited /\ res.name = "none" /\ Call_init(1)
    \/ res.name = "init" /\ pc[1] = "idle"
         /\ \E a \in SramArgs(BOOLEAN) : ReadSramOf(1, a)
    \/ res.name = "init" /\ pc[1] = "idle"
         /\ \E a \in SramArgs(BOOLEAN) : WriteSramOf(1, a)
    \/ Run(1)

ArgSpec == FairInit /\ [][ArgNext]_vars

(* hour registers another bus master may have left in the chip: 12-hour
   mode 12 AM and 12 PM, 24-hour mode 12 and 9 *)
RawHours == { 146, 178, 18, 9 }

HourInit == \E h \in RawHours : Boot([ PowerUpClock EXCEPT ![3] = h ])

(* one caller initialises the handle and reads the time *)
HourNext ==
    \/ ~inited /\ res.name = "none" /\ Call_init(1)
    \/ Call_get_time(1)
    \/ Run(1)

HourSpec == HourInit /\ [][HourNext]_vars

(* scratch-memory calls at two offsets, of one and of two bytes *)
RangeWrites ==
    { [ NoArg EXCEPT !.off = 0, !.len = 1, !.data = << 165 >> ],
      [ NoArg EXCEPT !.off = 1, !.len = 1, !.data = << 90 >> ],
      [ NoArg EXCEPT !.off = 1, !.len = 2, !.data = << 165, 90 >> ] }

RangeReads ==
    { [ NoArg EXCEPT !.off = w.off, !.len = w.len ] : w \in RangeWrites }

(* one caller initialises the handle and then writes and reads the scratch
   memory in any order *)
SramNext ==
    \/ ~inited /\ res.name = "none" /\ Call_init(1)
    \/ pc[1] = "idle" /\ \E a \in RangeWrites : WriteSramOf(1, a)
    \/ pc[1] = "idle" /\ \E a \in RangeReads : ReadSramOf(1, a)
    \/ Run(1)

(* the handle zeroed, the chip running, write protection on or off *)
SramInit == Init /\ dev_ch = FALSE /\ ChipCh(clk) = 0

SramSpec == SramInit /\ [][SramNext]_vars

---------------------------------------------------------------------------
(* Claims                                                                  *)

(* the operation of task t is about to return ESP_OK *)
ReturnsOk(t, name) ==
    pc[t] = "ret" /\ op[t].name = name /\ err[t] = ESP_OK

(* the operation that returned last was name, and it returned ESP_OK *)
LastOk(name) == res.name = name /\ res.err = ESP_OK

(* C1: after any sequence of public operations that all completed
   successfully the critical section is not held: its nesting count is
   zero whenever no operation is running. *)
C1_RegionFreeAfterOps == (Idle /\ allok) => mux.count = 0

(* C2: every public operation that is invoked eventually returns: with two
   tasks under fair scheduling no task stays inside an operation, waiting
   for the critical section, for ever. *)
C2_EveryCallReturns ==
    \A t \in Tasks : (pc[t] # "idle") ~> (pc[t] = "idle")

(* C3: an operation that reports the failure of a GPIO call made while it
   was addressing, writing or reading leaves chip-select low. *)
C3_CeLowOnFailure ==
    \A t \in Tasks :
      ( /\ pc[t] = "ret"
        /\ err[t] = ESP_FAIL
        /\ tx[t].at \in { "wb_io", "clk_hi", "clk_lo" } )
      => ce = 0

(* C4: when a set_direction or set_level call of a transaction fails, the
   critical section entered for the transaction has been left when the
   error is returned: the nesting count is back to what the transaction
   found. *)
C4_RegionLeftOnFailure ==
    \A t \in Tasks :
      ( /\ pc[t] = "ret"
        /\ err[t] = ESP_FAIL
        /\ tx[t].kind # "none" )
      => mux.count = tx[t].d0

(* the clock register a masked update of task t works on, 1-based *)
UpdateIndex(t) == IF op[t].name = "start" THEN 1 ELSE 8

(* task t is in the write-back half of update_register *)
InWriteBack(t) ==
    op[t].name \in { "start", "set_write_protect" } /\ tx[t].half = 2

(* C5: a masked register update is atomic: no transaction of another task
   changes the register between its read and its write-back, so the byte
   written back differs from the byte the register holds only in the flag
   bit and no concurrent write to the register is lost. *)
C5_UpdateAtomic ==
    \A t \in Tasks :
      InWriteBack(t) =>
        And8(tx[t].out[2], CH_MASK) = And8(clk[UpdateIndex(t)], CH_MASK)

(* the struct tm a get_time about to return has filled in *)
TimeRead(t) == GetTimeDecode(tx[t].buf)

(* C6: for every time record of the native ranges (seconds and minutes
   0..59, hours 0..23, day 1..31, month 1..12 on the chip, that is tm_mon
   0..11, weekday 1..7 on the chip, that is tm_wday 0..6, years 2000..2099),
   set_time followed at once by get_time, the chip having stored the bytes
   written, returns a record equal to the one written in every field. *)
C6_TimeRoundTrip ==
    ( /\ ReturnsOk(1, "get_time")
      /\ LastOk("set_time")
      /\ ~ChipWp(clk) )
    => TimeRead(1) = res.arg.time

C6_Witness ==
    /\ ReturnsOk(1, "get_time")
    /\ LastOk("set_time")
    /\ ~ChipWp(clk)
    /\ res.arg.time = [ TimeMin EXCEPT !.tm_hour = 23 ]
    /\ TimeRead(1).tm_hour = 23

(* C7: after a successful init and any sequence of public operations a
   set_time leaves the chip's clock-halt bit as it was just before the
   call. *)
C7_SetTimeKeepsHalt ==
    ( inited /\ ReturnsOk(1, "set_time") ) => ChipCh(clk) = chb4[1]

(* C8: after a successful init, whenever no operation is running, the
   cached clock-halt flag equals the halt bit the driver last read from or
   wrote to the seconds register. *)
C8_CacheIsLastObserved ==
    ( inited /\ Idle ) => lastObs = (IF dev_ch THEN 1 ELSE 0)

(* C9, as stated: in any reachable chip state a successful start(b)
   followed by is_running reports b. *)
C9_StartThenRunning_AnyState ==
    ( ReturnsOk(1, "is_running") /\ LastOk("start") )
    => RunningOf(tx[1].buf[1]) = res.arg.b

(* C9, amended: while the chip's write-protect bit is clear, a successful
   start(b) followed by is_running reports b. *)
C9_StartThenRunning ==
    ( /\ ReturnsOk(1, "is_running")
      /\ LastOk("start")
      /\ ~ChipWp(clk) )
    => RunningOf(tx[1].buf[1]) = res.arg.b

C9_Witness ==
    /\ ReturnsOk(1, "is_running")
    /\ LastOk("start")
    /\ ~ChipWp(clk)
    /\ res.arg.b = FALSE
    /\ ~RunningOf(tx[1].buf[1])
    /\ mux.count = 4

(* C10: a successful set_write_protect(b) followed by get_write_protect
   reports b: true after true, and false after a later
   set_write_protect(false). *)
C10_WriteProtectReadBack ==
    ( ReturnsOk(1, "get_write_protect") /\ LastOk("set_write_protect") )
    => WpOf(tx[1].buf[1]) = res.arg.b

C10_Witness ==
    /\ ReturnsOk(1, "get_write_protect")
    /\ LastOk("set_write_protect")
    /\ res.arg.b = FALSE
    /\ ~WpOf(tx[1].buf[1])
    /\ mux.count = 4

(* task t is inside a scratch-memory operation *)
SramOp(t) == op[t].name \in { "read_sram", "write_sram" }

(* the arguments the operation has to refuse: handle or buffer missing,
   length zero, or offset + length beyond the capacity *)
ArgBad(arg) ==
    ~arg.dev \/ ~arg.buf \/ arg.len = 0 \/ arg.off + arg.len > DS1302_RAM_SIZE

C11_RefusedAtOnce ==
    \A t \in Tasks :
      SramOp(t) =>
        /\ ArgBad(op[t].arg) => (pc[t] = "ret" /\ err[t] = ESP_ERR_INVALID_ARG)
        /\ ~ArgBad(op[t].arg) => err[t] = ESP_OK

C11_NoEffect ==
    \A t \in Tasks :
      ( \/ SramOp(t) /\ ArgBad(op[t].arg)
        \/ (SramOp(t))' /\ (ArgBad(op[t].arg))' )
      => UNCHANGED << lines, rtc, mux, dev_ch >>

(* C11: for every offset and length in 0..255 read_sram and write_sram
   return ESP_ERR_INVALID_ARG exactly when the handle or the buffer is
   missing, the length is zero or offset + length, not wrapped, exceeds 31;
   such a call makes no GPIO call, does not enter the critical section and
   leaves the chip and the cached flag as they were. *)
C11_InvalidArgs == [](C11_RefusedAtOnce) /\ [][C11_NoEffect]_vars

C11_Witness ==
    /\ pc[1] = "ret" /\ op[1].name = "write_sram"
    /\ op[1].arg.off = 30 /\ op[1].arg.len = 2
    /\ op[1].arg.dev /\ op[1].arg.buf
    /\ err[1] = ESP_ERR_INVALID_ARG
    /\ ce = 0 /\ mux.count = 0

(* a read_sram is about to return after a write_sram of the same offset
   and length returned ESP_OK *)
ReadAfterWrite ==
    /\ ReturnsOk(1, "read_sram")
    /\ LastOk("write_sram")
    /\ op[1].arg.off = res.arg.off
    /\ op[1].arg.len = res.arg.len

(* C12, as stated: a successful write_sram followed by a read_sram of the
   same offset and length returns the bytes written. *)
C12_SramRoundTrip_AnyState == ReadAfterWrite => tx[1].buf = res.arg.data

(* C12, amended: while the chip's write-protect bit is clear, a successful
   write_sram followed by a read_sram of the same offset and length returns
   the bytes written. *)
C12_SramRoundTrip ==
    ( ReadAfterWrite /\ ~ChipWp(clk) ) => tx[1].buf = res.arg.data

C12_Witness ==
    /\ ReadAfterWrite
    /\ ~ChipWp(clk)
    /\ op[1].arg.off = 1
    /\ tx[1].buf = << 165, 90 >>

(* the register a masked update is about and the value it ORs in *)
UpdateReg(t) == clk[UpdateIndex(t)]

UpdateFlag(t) ==
    IF op[t].name = "start" THEN (IF op[t].arg.b THEN 0 ELSE CH_BIT)
    ELSE (IF op[t].arg.b THEN WP_BIT ELSE 0)

(* start or set_write_protect is about to return ESP_OK *)
UpdateDone(t) ==
    /\ pc[t] = "ret" /\ err[t] = ESP_OK
    /\ op[t].name \in { "start", "set_write_protect" }

(* C13: a masked register update changes only the flag bit: when start(b)
   or set_write_protect(b) returns, the bits 0..6 of the register equal
   the bits read at the start of the update, and the byte written was
   (current & mask) | value. *)
C13_UpdateKeepsOtherBits ==
    \A t \in Tasks :
      UpdateDone(t) =>
        /\ UpdateReg(t) % 128 = tx[t].r % 128
        /\ tx[t].out[2] = (tx[t].r % 128) + UpdateFlag(t)

C13_Witness ==
    /\ UpdateDone(1)
    /\ op[1].name = "start" /\ ~op[1].arg.b
    /\ tx[1].r = 18
    /\ clk[1] = 146

(* get_time is about to return ESP_OK and has read raw as the hour byte *)
HourRead(raw) == ReturnsOk(1, "get_time") /\ tx[1].buf[3] = raw

(* C14, as stated: get_time decodes the raw hour byte 0x92 to hour 23. *)
C14_Hour92Is23 == HourRead(146) => TimeRead(1).tm_hour = 23

(* C14, amended: the raw hour byte 0x92 has the 12-hour bit set and the PM
   bit (bit 5) clear, and get_time decodes it to hour 11; the byte with
   the PM bit set as well, 0xb2, it decodes to hour 23. *)
C14_Hour92Is11 ==
    /\ HourRead(146) => TimeRead(1).tm_hour = 11
    /\ HourRead(178) => TimeRead(1).tm_hour = 23

C14_Witness == HourRead(146) /\ TimeRead(1).tm_hour = 11 /\ clk[3] = 146

(* C15, as stated: get_time decodes the raw hour byte 0x12, 24-hour mode,
   to hour 18. *)
C15_Hour12Is18 == HourRead(18) => TimeRead(1).tm_hour = 18

(* C15, amended: get_time decodes the raw hour byte 0x12, 24-hour mode, as
   BCD to hour 12. *)
C15_Hour12Is12 == HourRead(18) => TimeRead(1).tm_hour = 12

C15_Witness == HourRead(18) /\ TimeRead(1).tm_hour = 12 /\ clk[3] = 18

(* the data bytes of the transaction task t is in: one for a register,
   seven and eight for the clock bursts, the length for the scratch memory *)
DataBytes(t) ==
    CASE op[t].name = "get_time" -> 7
      [] op[t].name = "set_time" -> 8
      [] op[t].name \in { "read_sram", "write_sram" } -> op[t].arg.len
      [] OTHER -> 1

(* the chip takes the first eight pulses, and no others, as the address;
   chip-select is about to be dropped only with the clock low and all
   8 * (1 + n) pulses made *)
C16_Framing ==
    /\ ce = 1 => (chip.ph = "cmd" <=> pulses < 8)
    /\ \A t \in Tasks :
         pc[t] = "cs_off" =>
           ce = 1 /\ sclk = 0 /\ pulses = 8 * (1 + DataBytes(t))

(* chip-select rises with the clock low, the clock rises only under
   chip-select, chip-select falls only at the end of a transaction *)
C16_Edges ==
    /\ (ce = 0 /\ ce' = 1) => sclk = 0
    /\ (sclk = 0 /\ sclk' = 1) => ce = 1
    /\ (ce = 1 /\ ce' = 0) =>
         \E t \in Tasks : pc[t] = "cs_off" /\ pulses = 8 * (1 + DataBytes(t))

(* C16: in every transaction the clock line is low when chip-select is
   asserted, the address byte is clocked once, the data bytes follow, no
   clock pulse occurs while chip-select is deasserted, and on the success
   path chip-select is deasserted only after the last pulse: a burst of n
   bytes makes 8 * (1 + n) pulses under one chip-select assertion. *)
C16_LineOrder == [](C16_Framing) /\ [][C16_Edges]_vars

C16_Witness ==
    /\ pc[1] = "cs_off" /\ op[1].name = "get_time"
    /\ ce = 1 /\ sclk = 0 /\ pulses = 64

(* the places of a transaction where the next call drives or samples a
   line: direction, clock, chip-select rise, data out, data in *)
BitPhase == { "prep_dir", "prep_clk", "prep_ce", "wb_io", "rb_get",
              "clk_hi", "clk_lo" }

(* C17: every clock pulse, every write or sample of the data line and
   every change of its direction in a transaction happens while the calling
   task holds the critical section, entered once for the transaction and
   not left across the switch from output to input. *)
C17_LinesUnderLock ==
    \A t \in Tasks :
      pc[t] \in BitPhase => (mux.owner = t /\ mux.count = tx[t].d0 + 1)

C17_Witness ==
    /\ pc[1] = "prep_dir" /\ tx[1].ph = "in"
    /\ op[1].name = "get_time"
    /\ mux.owner = 1 /\ mux.count = 3 /\ tx[1].d0 = 2

(* task t is between the begin and the end of a transaction: past its
   PORT_ENTER_CRITICAL and not past its chip_disable *)
InTx(t) == pc[t] \in BitPhase \cup { "exit", "cs_off" }

(* C18: with two tasks on one handle transactions are never interleaved:
   no task is inside a transaction while another is, and every transaction
   asserts chip-select from the deasserted level. *)
C18_NoInterleaving ==
    \A t \in Tasks :
      /\ InTx(t) => \A u \in Tasks \ { t } : ~InTx(u)
      /\ (pc[t] = "prep_ce" /\ tx[t].ph = "out") => ce = 0

(* position i of the scratch memory, counted from 0, lies in the range the
   arguments of task t's operation name *)
InRange(t, i) == op[t].arg.off <= i /\ i < op[t].arg.off + op[t].arg.len

(* C19: a successful write_sram(offset, bytes) changes only the scratch
   bytes at the positions offset .. offset + length - 1: every other byte is
   as it was when the write began. *)
C19_WriteOnlyInRange ==
    ReturnsOk(1, "write_sram") =>
      \A i \in 0..(DS1302_RAM_SIZE - 1) :
        ~InRange(1, i) => ram[i + 1] = tx[1].ram0[i + 1]

(* C20: set_time does not change the chip's write-protect flag: when it
   returns, the flag is as it was when the transaction began. *)
C20_SetTimeKeepsWp ==
    ReturnsOk(1, "set_time") => (ChipWp(clk) <=> tx[1].wp0)

C20_Witness ==
    /\ ReturnsOk(1, "set_time")
    /\ ~ChipWp(clk) /\ ~tx[1].wp0
    /\ clk[1] % 128 = 89

=============================================================================
